---- MODULE Spec2Model ----
(***************************************************************************)
(* Model of ScrapingThread (src/modules/scrapping_thread.py): the          *)
(* sequential sitemap ingestion, reset_counts, and the crawl phase in      *)
(* which one dispatcher (parse_from_links) feeds a ThreadPoolExecutor of   *)
(* no_workers threads running parse_links_worker.                          *)
(*                                                                         *)
(* A URL is a sequence of tokens (atomic substrings); the string tests of  *)
(* the code (startswith, endswith, in, split) are computed on tokens.      *)
(***************************************************************************)
EXTENDS Naturals, Sequences, FiniteSets, TLC

\* Number of pool threads (no_workers); the class takes any positive value.
NoWorkers == 2

Workers == 1..NoWorkers

\* Number of documents whose GET fails in a run, unless all of them fail
MaxFailures == 1

-----------------------------------------------------------------------------
(* Strings as token sequences *)

startswith(s, tok) == Len(s) >= 1 /\ s[1] = tok

endswith(s, tok) == Len(s) >= 1 /\ s[Len(s)] = tok

\* Python's `tok in s`
contains(s, tok) == \E i \in 1..Len(s) : s[i] = tok

\* str.strip(): leading and trailing blanks removed
RECURSIVE lstrip(_)
lstrip(s) == IF Len(s) >= 1 /\ s[1] = " " THEN lstrip(Tail(s)) ELSE s

RECURSIVE rstrip(_)
rstrip(s) == IF Len(s) >= 1 /\ s[Len(s)] = " " THEN rstrip(SubSeq(s, 1, Len(s) - 1)) ELSE s

strip(s) == rstrip(lstrip(s))

\* Index of the first "#" token, or Len(s)+1
RECURSIVE FirstHash(_, _)
FirstHash(s, i) == IF i > Len(s) \/ s[i] = "#" THEN i ELSE FirstHash(s, i + 1)

\* clean_url: url.split('#')[0]
clean_url(url) == SubSeq(url, 1, FirstHash(url, 1) - 1)

invalid_extensions == {".png", ".jpg", ".jpeg", ".gif", ".ppt", ".pptx", ".xls", ".xlsx"}

invalid_keywords == {"wp-content", "wp-json", "wp-login", "wp-admin", "wp-includes"}

is_url_content(url) ==
    /\ ~(\E e \in invalid_extensions : endswith(url, e))
    /\ ~(\E k \in invalid_keywords : contains(url, k))

is_a_valid_http_link(url) ==
    IF startswith(url, "mailto:") \/ startswith(url, "tel:")
    THEN FALSE
    ELSE startswith(url, "http://") \/ startswith(url, "https://")

Schemes == {"http://", "https://", "mailto:", "tel:"}

\* urlparse(url).netloc: the authority after "//", empty for other schemes
netloc(url) ==
    IF Len(url) >= 2 /\ url[1] \in {"http://", "https://"} /\ url[2] \notin {"/", "#"}
    THEN <<url[2]>>
    ELSE <<>>

\* urljoin(base, href): an href with a scheme stands; a rooted path is
\* resolved against the base's scheme and authority
urljoin(base, href) ==
    IF Len(href) >= 1 /\ href[1] \in Schemes THEN href
    ELSE IF Len(href) >= 1 /\ href[1] = "/" THEN SubSeq(base, 1, 2) \o href
    ELSE base

\* `self.pattern and not any(re.search(p, domain) ...)` negated: the URL is crawled
pattern_match(pat, url) ==
    Len(pat) = 0 \/ \E i \in 1..Len(pat) : contains(netloc(url), pat[i])

\* parse_xml: the stripped, content-valid, fragment-free <loc> texts, in order
RECURSIVE parse_xml(_)
parse_xml(locs) ==
    IF locs = <<>> THEN <<>>
    ELSE LET link == strip(Head(locs))
         IN  (IF is_url_content(link) THEN <<clean_url(link)>> ELSE <<>>)
                \o parse_xml(Tail(locs))

-----------------------------------------------------------------------------
(* The sites that are crawled *)

SEED   == <<"https://", "x.com", "/", "sitemap.xml">>
NESTED == <<"https://", "x.com", "/", "posts", "/", "sitemap.xml">>
POST_1 == <<"https://", "x.com", "/", "post-1">>
PNG    == <<"https://", "x.com", "/", "post-2", ".png">>
PAGE_A == <<"https://", "x.com", "/", "a">>
PAGE_B == <<"https://", "x.com", "/", "b">>
PAGE_L == <<"https://", "other.org", "/", "page">>
MAILTO == <<"mailto:", "a@b.com">>
TEL    == <<"tel:", "123">>

\* "sitemaps": two sitemap documents that reference each other, and leaves;
\* "pages": a flat sitemap of two pages that link to a third;
\* "assets": a sitemap of one post whose page links to an image
Sites == {"sitemaps", "pages", "assets"}

\* <loc> texts of a sitemap document
SitemapLocs(s, url) ==
    CASE s = "sitemaps" /\ url = SEED   -> <<NESTED, MAILTO, POST_1 \o <<"#", "sec">>>>
      [] s = "sitemaps" /\ url = NESTED -> <<SEED, PNG, <<" ">> \o POST_1 \o <<" ">>>>
      [] s = "pages" /\ url = SEED      -> <<PAGE_A, PAGE_B>>
      [] s = "assets" /\ url = SEED     -> <<POST_1>>
      [] OTHER                          -> <<>>

\* href attributes of the anchors of a page served with a 2xx status
PageHrefs(s, url) ==
    CASE s = "pages" /\ url = PAGE_A    -> <<PAGE_L, TEL>>
      [] s = "pages" /\ url = PAGE_B    -> <<PAGE_L>>
      [] s = "sitemaps" /\ url = POST_1 -> <<TEL>>
      [] s = "assets" /\ url = POST_1   -> <<PNG>>
      [] OTHER                          -> <<>>

\* href attributes of the anchors of the body served with a non-2xx status:
\* the error page of x.com links to its page /a
ErrorHrefs(s, url) ==
    IF s = "pages" /\ netloc(url) = <<"x.com">> THEN <<<<"/", "a">>>> ELSE <<>>

URLS == {SEED, NESTED, POST_1, PNG, PAGE_A, PAGE_B, PAGE_L, MAILTO, TEL}

Outcome == {"ok", "transport", "status"}

\* The documents of a site a GET can be sent to
Fetchable(s) ==
    CASE s = "sitemaps" -> {SEED, NESTED, POST_1}
      [] s = "pages"    -> {SEED, PAGE_A, PAGE_B, PAGE_L}
      [] s = "assets"   -> {SEED, POST_1, PNG}

\* The configurations a run is started with: the domain pattern list
Patterns == {<<>>, <<"x.com">>}

\* The answers of a site in one run, one per document: at most MaxFailures
\* documents fail, or all of them do. A non-2xx answer whose body holds no
\* anchor leaves the program where a transport error leaves it, so "status"
\* is an input only for the documents served with an error page that links.
Outcomes(s) ==
    {f \in [Fetchable(s) -> Outcome] :
        /\ \A u \in Fetchable(s) : f[u] = "status" => ErrorHrefs(s, u) # <<>>
        /\ \/ Cardinality({u \in Fetchable(s) : f[u] # "ok"}) <= MaxFailures
           \/ \A u \in Fetchable(s) : f[u] # "ok"}

-----------------------------------------------------------------------------
(* State *)

VARIABLES
    site,           \* the site the seed belongs to
    pattern,        \* self.pattern
    outcome,        \* what the site answers to a GET of each URL in this run
    pc,             \* position of the QThread in run()
    status,         \* last update_status message
    visited,        \* self.visited_links
    unvisited,      \* self.unvisited_links
    edges,          \* self.save_execution rows, <<link, source>>
    lock,           \* self.lock: 0 when free, else the worker holding it
    thread_counter, \* thread_counter of parse_from_links
    queue,          \* work queue of the executor: <<url, thread_id>> tasks
    wpc,            \* position of each pool thread in parse_links_worker
    wurl,           \* url argument of the task a pool thread runs
    wtid,           \* thread_id argument of the task a pool thread runs
    found,          \* found_links of the task
    idx,            \* position of the `for link in found_links` loop
    smFetches,      \* GETs sent by process_sitemaps, per URL
    fetches,        \* GETs sent by fetch_links, per URL
    popped,         \* URLs parse_from_links has popped
    initial_sitemap_url \* self.initial_sitemap_url

vars == <<site, pattern, outcome, pc, status, visited, unvisited, edges, lock,
          thread_counter, queue, wpc, wurl, wtid, found, idx,
          smFetches, fetches, popped, initial_sitemap_url>>

config == <<site, pattern, outcome, initial_sitemap_url>>
pool   == <<queue, wpc, wurl, wtid, found, idx>>

NoUrl == <<>>

\* the fields ScrapingThread.__init__ sets, and the inputs of the run
InitFields ==
    /\ site \in Sites
    /\ pattern \in Patterns
    /\ outcome \in Outcomes(site)
    /\ status = "Waiting to start..."
    /\ visited = {}
    /\ unvisited = {}
    /\ edges = <<>>
    /\ lock = 0
    /\ thread_counter = 0
    /\ queue = <<>>
    /\ wpc = [w \in Workers |-> "idle"]
    /\ wurl = [w \in Workers |-> NoUrl]
    /\ wtid = [w \in Workers |-> 0]
    /\ found = [w \in Workers |-> <<>>]
    /\ idx = [w \in Workers |-> 0]
    /\ smFetches = [u \in URLS |-> 0]
    /\ fetches = [u \in URLS |-> 0]
    /\ popped = {}

\* the ScrapingThread is constructed with a seed and about to run
Init ==
    /\ InitFields
    /\ pc = "start"
    /\ initial_sitemap_url = SEED

\* requests.get: a URL without an http(s) scheme raises InvalidSchema, a
\* RequestException, before anything is sent
Response(url) == IF is_a_valid_http_link(url) /\ url \in DOMAIN outcome
                 THEN outcome[url] ELSE "transport"

Range(s) == {s[i] : i \in 1..Len(s)}

RECURSIVE JoinAll(_, _)
JoinAll(base, hrefs) ==
    IF hrefs = <<>> THEN <<>>
    ELSE <<urljoin(base, Head(hrefs))>> \o JoinAll(base, Tail(hrefs))

\* fetch_links: the joined hrefs of whatever body came back (the status is
\* not looked at); no links when requests raised
fetch_links(url) ==
    CASE Response(url) = "ok"     -> JoinAll(url, PageHrefs(site, url))
      [] Response(url) = "status" -> JoinAll(url, ErrorHrefs(site, url))
      [] OTHER                    -> <<>>

\* the try block of process_sitemaps: raise_for_status turns a non-2xx
\* answer into a RequestException, which leaves no links
sitemap_links(url) ==
    IF Response(url) = "ok" THEN parse_xml(SitemapLocs(site, url)) ELSE <<>>

\* process_sitemaps that forgets what it has processed
mark_visited_forgets(url) == visited

\* self.visited_links.add(url) in process_sitemaps
mark_visited(url) == visited \cup {url}

-----------------------------------------------------------------------------
(* run(): sitemap phase *)

\* run() up to the first statement of process_sitemaps
StartRun ==
    /\ pc = "start"
    /\ status' = "Starting sitemap parsing..."
    /\ unvisited' = unvisited \cup {initial_sitemap_url}
    /\ pc' = "sitemap"
    /\ UNCHANGED <<config, popped, visited, edges, lock, thread_counter, pool,
                   smFetches, fetches>>

\* one iteration of `while self.unvisited_links` in process_sitemaps
SitemapStep ==
    /\ pc = "sitemap"
    /\ unvisited # {}
    /\ \E url \in unvisited :
         LET rest == unvisited \ {url} IN
         IF url \in visited
         THEN /\ unvisited' = rest
              /\ UNCHANGED <<visited, smFetches>>
         ELSE /\ visited' = mark_visited(url)
              /\ IF contains(url, "sitemap.xml")
                 THEN /\ smFetches' = [smFetches EXCEPT ![url] = @ + 1]
                      /\ unvisited' = rest \cup
                            {l \in Range(sitemap_links(url)) : l \notin visited'}
                 ELSE /\ unvisited' = rest
                      /\ UNCHANGED smFetches
    /\ UNCHANGED <<config, popped, pc, status, edges, lock, thread_counter, pool,
                   fetches>>

\* the loop of process_sitemaps ends
SitemapDone ==
    /\ pc = "sitemap"
    /\ unvisited = {}
    /\ status' = "Resetting counts..."
    /\ pc' = "reset"
    /\ UNCHANGED <<config, popped, visited, unvisited, edges, lock, thread_counter,
                   pool, smFetches, fetches>>

reset_counts ==
    /\ pc = "reset"
    /\ unvisited' = visited
    /\ visited' = {}
    /\ status' = "Crawling links..."
    /\ pc' = "check"
    /\ UNCHANGED <<config, popped, edges, lock, thread_counter, pool, smFetches, fetches>>

-----------------------------------------------------------------------------
(* parse_from_links: the dispatcher *)

\* `while self.unvisited_links:`
DispatchCheck ==
    /\ pc = "check"
    /\ pc' = IF unvisited # {} THEN "pop" ELSE "join"
    /\ UNCHANGED <<config, popped, status, visited, unvisited, edges, lock,
                   thread_counter, pool, smFetches, fetches>>

\* thread_id = thread_counter % self.no_workers
thread_id(counter) == counter % NoWorkers

\* pop, thread_id, submit, thread_counter += 1
DispatchPop ==
    /\ pc = "pop"
    /\ unvisited # {}
    /\ \E url \in unvisited :
         /\ unvisited' = unvisited \ {url}
         /\ queue' = Append(queue, <<url, thread_id(thread_counter)>>)
         /\ popped' = popped \cup {url}
    /\ thread_counter' = thread_counter + 1
    /\ pc' = "emit"
    /\ UNCHANGED <<config, status, visited, edges, lock, wpc, wurl, wtid,
                   found, idx, smFetches, fetches>>

\* set.pop() of an empty set raises KeyError, which leaves the loop
DispatchPopEmpty ==
    /\ pc = "pop"
    /\ unvisited = {}
    /\ pc' = "keyerror"
    /\ UNCHANGED <<config, popped, status, visited, unvisited, edges, lock,
                   thread_counter, pool, smFetches, fetches>>

\* update_progress.emit, update_results.emit
DispatchEmit ==
    /\ pc = "emit"
    /\ pc' = "check"
    /\ UNCHANGED <<config, popped, status, visited, unvisited, edges, lock,
                   thread_counter, pool, smFetches, fetches>>

\* shutdown that does not wait for the tasks
PoolIdle_nowait == TRUE

PoolIdle == queue = <<>> /\ \A w \in Workers : wpc[w] = "idle"

\* the with block ends: shutdown(wait=True), then run() goes on
DispatchJoin ==
    /\ pc = "join"
    /\ PoolIdle
    /\ status' = "Crawling complete!"
    /\ pc' = "complete"
    /\ UNCHANGED <<config, popped, visited, unvisited, edges, lock, thread_counter,
                   pool, smFetches, fetches>>

\* the with block is left by the KeyError: shutdown(wait=True), then the
\* exception ends run()
DispatchAbort ==
    /\ pc = "keyerror"
    /\ PoolIdle
    /\ pc' = "crashed"
    /\ UNCHANGED <<config, popped, status, visited, unvisited, edges, lock,
                   thread_counter, pool, smFetches, fetches>>

-----------------------------------------------------------------------------
(* parse_links_worker on the pool threads *)

\* an idle pool thread takes the oldest task; the threads are
\* interchangeable, so the lowest idle one takes it
WorkerStart(w) ==
    /\ wpc[w] = "idle"
    /\ queue # <<>>
    /\ \A v \in Workers : v < w => wpc[v] # "idle"
    /\ wurl' = [wurl EXCEPT ![w] = Head(queue)[1]]
    /\ wtid' = [wtid EXCEPT ![w] = Head(queue)[2]]
    /\ queue' = Tail(queue)
    /\ wpc' = [wpc EXCEPT ![w] = "claim"]
    /\ UNCHANGED <<config, popped, pc, status, visited, unvisited, edges, lock,
                   thread_counter, found, idx, smFetches, fetches>>

\* a worker that never finds its URL visited
already_visited_never(url) == FALSE

\* `if url in self.visited_links`
already_visited(url) == url \in visited

Retire(w) ==
    /\ wpc' = [wpc EXCEPT ![w] = "idle"]
    /\ wurl' = [wurl EXCEPT ![w] = NoUrl]
    /\ wtid' = [wtid EXCEPT ![w] = 0]
    /\ found' = [found EXCEPT ![w] = <<>>]
    /\ idx' = [idx EXCEPT ![w] = 0]

\* the first `with self.lock` block: check and mark visited
WorkerClaim(w) ==
    /\ wpc[w] = "claim"
    /\ lock = 0
    /\ IF already_visited(wurl[w])
       THEN /\ Retire(w)
            /\ UNCHANGED visited
       ELSE /\ visited' = visited \cup {wurl[w]}
            /\ wpc' = [wpc EXCEPT ![w] = "filter"]
            /\ UNCHANGED <<wurl, wtid, found, idx>>
    /\ UNCHANGED <<config, popped, pc, status, unvisited, edges, lock, thread_counter,
                   queue, smFetches, fetches>>

\* a worker that skips nothing
should_skip_never(url) == FALSE

\* the condition of line 169
should_skip(url) == ~pattern_match(pattern, url)

\* the pattern test fails: discard and return
WorkerSkip(w) ==
    /\ wpc[w] = "filter"
    /\ should_skip(wurl[w])
    /\ unvisited' = unvisited \ {wurl[w]}
    /\ Retire(w)
    /\ UNCHANGED <<config, popped, pc, status, visited, edges, lock, thread_counter,
                   queue, smFetches, fetches>>

\* found_links = self.fetch_links(url)
WorkerFetch(w) ==
    /\ wpc[w] = "filter"
    /\ ~should_skip(wurl[w])
    /\ fetches' = [fetches EXCEPT ![wurl[w]] = @ + 1]
    /\ found' = [found EXCEPT ![w] = fetch_links(wurl[w])]
    /\ wpc' = [wpc EXCEPT ![w] = "wait"]
    /\ UNCHANGED <<config, popped, pc, status, visited, unvisited, edges, lock,
                   thread_counter, queue, wurl, wtid, idx, smFetches>>

\* the second `with self.lock:` is entered
WorkerAcquire(w) ==
    /\ wpc[w] = "wait"
    /\ lock = 0
    /\ lock' = w
    /\ idx' = [idx EXCEPT ![w] = 1]
    /\ wpc' = [wpc EXCEPT ![w] = "insert"]
    /\ UNCHANGED <<config, popped, pc, status, visited, unvisited, edges,
                   thread_counter, queue, wurl, wtid, found,
                   smFetches, fetches>>

\* an insert condition that does not look at visited_links
is_new_link_unvisited_only(link) ==
    link \notin unvisited /\ is_a_valid_http_link(link)

\* an insert condition without the scheme test
is_new_link_any_scheme(link) ==
    link \notin visited /\ link \notin unvisited

\* the condition of line 181
is_new_link(link) ==
    link \notin visited /\ link \notin unvisited /\ is_a_valid_http_link(link)

\* one iteration of `for link in found_links`
WorkerInsert(w) ==
    /\ wpc[w] = "insert"
    /\ idx[w] <= Len(found[w])
    /\ LET link == found[w][idx[w]] IN
         IF is_new_link(link)
         THEN /\ unvisited' = unvisited \cup {link}
              /\ edges' = Append(edges, <<link, wurl[w]>>)
         ELSE UNCHANGED <<unvisited, edges>>
    /\ idx' = [idx EXCEPT ![w] = @ + 1]
    /\ UNCHANGED <<config, popped, pc, status, visited, lock, thread_counter, queue,
                   wpc, wurl, wtid, found, smFetches, fetches>>

\* the loop is over and the lock is released
WorkerRelease(w) ==
    /\ wpc[w] = "insert"
    /\ idx[w] > Len(found[w])
    /\ lock' = 0
    /\ wpc' = [wpc EXCEPT ![w] = "report"]
    /\ UNCHANGED <<config, popped, pc, status, visited, unvisited, edges,
                   thread_counter, queue, wurl, wtid, found, idx,
                   smFetches, fetches>>

\* the three emits that end the task
WorkerReport(w) ==
    /\ wpc[w] = "report"
    /\ Retire(w)
    /\ UNCHANGED <<config, popped, pc, status, visited, unvisited, edges, lock,
                   thread_counter, queue, smFetches, fetches>>

-----------------------------------------------------------------------------

Main ==
    \/ StartRun
    \/ SitemapStep
    \/ SitemapDone
    \/ reset_counts
    \/ DispatchCheck
    \/ DispatchPop
    \/ DispatchPopEmpty
    \/ DispatchEmit
    \/ DispatchJoin
    \/ DispatchAbort

Worker(w) ==
    \/ WorkerStart(w)
    \/ WorkerClaim(w)
    \/ WorkerSkip(w)
    \/ WorkerFetch(w)
    \/ WorkerAcquire(w)
    \/ WorkerInsert(w)
    \/ WorkerRelease(w)
    \/ WorkerReport(w)

Next == Main \/ \E w \in Workers : Worker(w)

Spec == Init /\ [][Next]_vars

\* process_sitemaps alone: the run up to the call of reset_counts
SitemapNext == StartRun \/ SitemapStep \/ SitemapDone

\* The QThread and the pool threads are operating-system threads: each one
\* that can take a step eventually takes it.
FairSpec == Spec /\ WF_vars(Main) /\ \A w \in Workers : WF_vars(Worker(w))

SitemapSpec == Init /\ [][SitemapNext]_vars /\ WF_vars(SitemapNext)

-----------------------------------------------------------------------------
(* WebCrawler: construction of the window and the start button *)

\* the sitemap_url arguments a WebCrawler is constructed with: None, the
\* empty string, a seed
SeedArgs == {[none |-> TRUE,  text |-> <<>>],
             [none |-> FALSE, text |-> <<>>],
             [none |-> FALSE, text |-> SEED]}

\* a constructor that takes any argument for a seed
truthy_always(arg) == TRUE

\* `if sitemap_url:`
truthy(arg) == ~arg.none /\ arg.text # <<>>

\* no WebCrawler exists yet
UiInit ==
    /\ InitFields
    /\ pc = "new"
    /\ initial_sitemap_url = NoUrl

\* WebCrawler.__init__
Construct ==
    /\ pc = "new"
    /\ \E arg \in SeedArgs :
         IF truthy(arg)
         THEN /\ initial_sitemap_url' = arg.text
              /\ pc' = "window"
         ELSE /\ pc' = "value_error"
              /\ UNCHANGED initial_sitemap_url
    /\ UNCHANGED <<site, pattern, outcome, status, visited, unvisited, edges,
                   lock, thread_counter, pool, smFetches, fetches, popped>>

\* WebCrawler.start_crawling: the ScrapingThread is built and started
start_crawling ==
    /\ pc = "window"
    /\ pc' = "start"
    /\ UNCHANGED <<config, popped, status, visited, unvisited, edges, lock,
                   thread_counter, pool, smFetches, fetches>>

UiNext == Construct \/ start_crawling \/ Next

UiSpec == UiInit /\ [][UiNext]_vars

\* WebCrawler.update_progress line 135 divides by visited + unvisited
update_progress_defined(v, u) == v + u # 0

-----------------------------------------------------------------------------
(* Derived state *)

Queued == {queue[i][1] : i \in 1..Len(queue)}

Held == {wurl[w] : w \in {v \in Workers : wpc[v] # "idle"}}

Complete == status = "Crawling complete!"

InCrawl == pc \in {"check", "pop", "emit", "join", "keyerror", "complete", "crashed"}

Executing == {w \in DOMAIN wpc : wpc[w] # "idle"}

\* the state reset_counts leaves: the crawl phase has not popped yet
AfterReset == pc = "check" /\ thread_counter = 0

\* what sitemap expansion can reach from S with the answers of this run
RECURSIVE SitemapReach(_)
SitemapReach(S) ==
    LET more == S \cup UNION {Range(sitemap_links(u)) :
                                u \in {v \in S : contains(v, "sitemap.xml")}}
    IN  IF more = S THEN S ELSE SitemapReach(more)

\* what following the schedulable links of crawled pages can reach from S
RECURSIVE CrawlReach(_)
CrawlReach(S) ==
    LET more == S \cup UNION {{l \in Range(fetch_links(u)) : is_a_valid_http_link(l)} :
                                u \in {v \in S : pattern_match(pattern, v)}}
    IN  IF more = S THEN S ELSE CrawlReach(more)

-----------------------------------------------------------------------------
(* Claims *)

\* C1: in every reachable state of a run, in both phases and for every
\* interleaving, no URL is in both visited and unvisited.
C1_Disjoint == visited \cap unvisited = {}

\* C2: when parse_from_links has returned and "Crawling complete!" is
\* reported, unvisited is empty.
C2_CompleteMeansDrained == Complete => unvisited = {}

\* C3: during the crawl phase every URL is fetched at most once, also when
\* it is handed to workers more than once.
C3_FetchedAtMostOnce == \A u \in URLS : fetches[u] <= 1

\* a task for a URL that was already fetched stands at the visited check
C3_Witness ==
    \E w \in Workers : wpc[w] = "claim" /\ wurl[w] \in visited /\ fetches[wurl[w]] = 1

\* C4: no two entries of the edge log have the same discovered link.
C4_OneEdgePerLink ==
    \A i, j \in 1..Len(edges) : i # j => edges[i][1] # edges[j][1]

\* C5: every run that completes ends with the same visited set: all URLs
\* reachable from the sitemap-derived seed set through filter-passing links.
C5_FinalVisited == Complete => visited = CrawlReach(SitemapReach({SEED}))

\* C6: right after the reset, visited is empty and unvisited is exactly the
\* content URLs referenced from the seed sitemap, with no sitemap document.
C6_InitialFrontier ==
    AfterReset =>
        /\ visited = {}
        /\ unvisited = {u \in SitemapReach({SEED}) : ~contains(u, "sitemap.xml")}

\* C7: a URL that fails scheme validity is never in unvisited and never
\* handed to a worker, whether it came from a <loc> or from an anchor.
C7_SchemeValidOnly ==
    \A u \in unvisited \cup Queued \cup Held : is_a_valid_http_link(u)

\* C8: with a non-empty pattern list, a URL whose netloc matches no pattern
\* is, once a worker has it, marked visited, never fetched, never the source
\* of an edge; its worker inserts nothing, and a later task for it returns
\* at the visited check.
C8_UnmatchedState ==
    pattern # <<>> =>
        \A u \in {v \in URLS : ~pattern_match(pattern, v)} :
            /\ fetches[u] = 0
            /\ \A i \in 1..Len(edges) : edges[i][2] # u
            /\ \A w \in Workers : wurl[w] = u /\ wpc[w] # "idle" =>
                    /\ wpc[w] \in {"claim", "filter"}
                    /\ wpc[w] = "filter" => u \in visited

C8_UnmatchedStep ==
    \A w \in Workers :
        (/\ pattern # <<>>
         /\ wpc[w] # "idle"
         /\ ~pattern_match(pattern, wurl[w])
         /\ Worker(w)) =>
            /\ unvisited' \subseteq unvisited
            /\ edges' = edges
            /\ fetches' = fetches
            /\ (wpc[w] = "claim" /\ wurl[w] \in visited) => wpc'[w] = "idle"
            /\ wpc[w] = "filter" => (wpc'[w] = "idle" /\ wurl[w] \in visited')

C8_Unmatched == []C8_UnmatchedState /\ [][C8_UnmatchedStep]_vars

\* a worker has skipped the unmatched page and retired
C8_Witness ==
    /\ pattern # <<>>
    /\ PAGE_L \in visited
    /\ PAGE_L \notin Held
    /\ fetches[PAGE_L] = 0

\* C9: sitemap ingestion terminates on every finite sitemap graph, with
\* cycles and with failing fetches; each sitemap document is fetched at most
\* once and every leaf referenced from a fetched document is in the result.
C9_IngestionEnds ==
    /\ <>(pc = "reset")
    /\ [](\A u \in URLS : smFetches[u] <= 1)
    /\ [](pc = "reset" => unvisited = {} /\ visited = SitemapReach({SEED}))

\* both documents of the cycle were fetched and the leaf is in the result
C9_Witness ==
    /\ pc = "reset"
    /\ smFetches[SEED] = 1
    /\ smFetches[NESTED] = 1
    /\ POST_1 \in visited

\* C10: under fair scheduling every run eventually reports
\* "Crawling complete!", whatever fetches fail.
C10_EventuallyComplete == <>Complete

\* C11: in the crawl phase a URL that is in visited is never afterwards
\* inserted into unvisited.
C11_NoReinsert ==
    [][InCrawl => \A u \in visited : u \in unvisited' => u \in unvisited]_vars

\* a worker in its insert loop stands at a link that is already visited
C11_Witness ==
    \E w \in Workers :
        /\ wpc[w] = "insert"
        /\ idx[w] <= Len(found[w])
        /\ found[w][idx[w]] \in visited
        /\ found[w][idx[w]] \notin unvisited
        /\ is_a_valid_http_link(found[w][idx[w]])

\* C12: a link found on a page that ends in a rejected extension or holds a
\* CMS-internal segment is never inserted into unvisited and never fetched.
C12_ContentValidOnly ==
    InCrawl =>
        /\ \A i \in 1..Len(edges) : is_url_content(edges[i][1])
        /\ \A u \in unvisited \cup Queued \cup Held : is_url_content(u)
        /\ \A u \in URLS : ~is_url_content(u) => fetches[u] = 0

\* C13: a URL whose fetch failed (transport error or non-2xx status) stays
\* visited, yields no links and no edge, and is not fetched again.
C13_FailedFetchYieldsNothing ==
    \A u \in URLS : (fetches[u] >= 1 /\ Response(u) # "ok") =>
        /\ u \in visited
        /\ fetches[u] = 1
        /\ \A i \in 1..Len(edges) : edges[i][2] # u
        /\ \A w \in Workers : wurl[w] = u => found[w] = <<>>

\* C14: the dispatcher pops only while no worker is inside its insert
\* block, and nothing changes unvisited between its check and its pop.
C14_PopSerialized ==
    [][/\ (pc = "pop" /\ pc' # "pop") => lock = 0
       /\ (pc = "pop" /\ pc' = "pop") => unvisited' = unvisited]_vars

\* C15: every slot index is bound to at most one in-flight URL: no two
\* executing workers carry the same slot index.
C15_SlotExclusive ==
    \A v, w \in Workers :
        (v # w /\ wpc[v] # "idle" /\ wpc[w] # "idle") => wtid[v] # wtid[w]

\* C16: a full pool blocks further submission: the URLs submitted and not
\* yet finished never exceed W.
C16_SubmissionBounded == Len(queue) + Cardinality(Executing) <= NoWorkers

\* C17: a crawl never starts without a seed: construction with a missing or
\* empty sitemap URL ends in an error, after which nothing is fetched and
\* the frontier is untouched.
C17_NoSeedNoCrawl ==
    /\ pc \notin {"new", "value_error"} => initial_sitemap_url # <<>>
    /\ pc = "value_error" =>
            /\ initial_sitemap_url = NoUrl
            /\ visited = {} /\ unvisited = {} /\ edges = <<>> /\ popped = {}
            /\ \A u \in URLS : smFetches[u] = 0 /\ fetches[u] = 0
            /\ ~ENABLED UiNext

\* the constructor has raised
C17_Witness == pc = "value_error"

\* C18: when "Crawling complete!" is emitted no worker executes, every URL
\* the dispatcher popped is in visited, and visited, unvisited and the edge
\* log do not change afterwards.
C18_CompleteIsFinal ==
    /\ [](Complete =>
            /\ queue = <<>>
            /\ \A w \in Workers : wpc[w] = "idle"
            /\ popped \subseteq visited)
    /\ [][Complete => (visited' = visited /\ unvisited' = unvisited /\ edges' = edges)]_vars

\* a run that popped discovered links has completed
C18_Witness == Complete /\ Cardinality(popped) >= 3 /\ edges # <<>>

\* C19: every progress event carries visited + unvisited > 0.
C19_ProgressDefined ==
    [][/\ (pc = "reset" /\ pc' # "reset") =>
              update_progress_defined(0, Cardinality(unvisited'))
       /\ (pc = "emit" /\ pc' # "emit") =>
              update_progress_defined(Cardinality(visited), Cardinality(unvisited))
       /\ \A w \in Workers : (wpc[w] = "report" /\ wpc'[w] # "report") =>
              update_progress_defined(Cardinality(visited), Cardinality(unvisited))]_vars

\* C20: the edge log only grows, and for every entry the source is visited,
\* matched the pattern and was fetched, the link passes scheme validity and
\* is in unvisited, in visited, or held by the pool.
C20_EdgeState ==
    InCrawl =>
        \A i \in 1..Len(edges) :
            /\ edges[i][2] \in visited
            /\ pattern_match(pattern, edges[i][2])
            /\ fetches[edges[i][2]] >= 1
            /\ is_a_valid_http_link(edges[i][1])
            /\ edges[i][1] \in unvisited \cup visited \cup Queued \cup Held

C20_EdgeStep ==
    Len(edges') >= Len(edges) /\ SubSeq(edges', 1, Len(edges)) = edges

C20_EdgeLog == []C20_EdgeState /\ [][C20_EdgeStep]_vars

\* the link of an edge is held by the pool, in neither set
C20_Witness ==
    \E i \in 1..Len(edges) :
        /\ edges[i][1] \in Queued \cup Held
        /\ edges[i][1] \notin visited \cup unvisited

====
